---- MODULE Spec2Model ----
(***************************************************************************)
(* Log ingestion (LogFileSerializer.create), classification and the lazy   *)
(* record parser (LogFile.LogIterator) of learn_python_server.             *)
(***************************************************************************)
EXTENDS Integers, Sequences, FiniteSets, TLC

VARIABLES
    rows,       \* the LogFile table: a set of row records
    files,      \* the upload store: path -> [data, corrupt]
    engLog,     \* TutorEngagement.log of the one known engagement (row id or NULL)
    nextId,     \* next primary key / storage path handed out
    now,        \* wall clock in seconds (gzip header mtime)
    last,       \* outcome of the most recent request
    it,         \* one LogIterator instance and the records it has yielded
    cls,        \* one file name and the type the classification loop gave it
    events,     \* the committed LogEvent, TestEvent and ToolRun rows
    batch       \* the process_logs command: where it is, and its open transaction

vars == <<rows, files, engLog, nextId, now, last, it, cls, events, batch>>

\* ------------------------------------------------------------------ bounds

MaxUploads == 3
MaxClock == 2
MaxFaults == 1
MaxLines == 3

NULL == "NULL"

\* ------------------------------------------------------------------ lines

\* One token of a line's free text.  k = "word" is plain text a; the other
\* kinds are the places the secondary patterns of the Testing kind match.
Word(a) == [k |-> "word", a |-> a, b |-> NULL]
StartTok(a) == [k |-> "start", a |-> a, b |-> NULL]
StopTok(a) == [k |-> "stop", a |-> a, b |-> NULL]
ResultTok(r, ident) == [k |-> "result", a |-> r, b |-> ident]

\* A physical line that has the "<timestamp> - <logger> - [<no>]<level> - <message>" shape.
LogLine(ts, logger, level_no, level, body) ==
    [shape |-> "log", ts |-> ts, logger |-> logger, level_no |-> level_no,
     level |-> level, body |-> body]

\* Any other physical line.
TextLine(body) ==
    [shape |-> "text", ts |-> NULL, logger |-> NULL, level_no |-> NULL,
     level |-> NULL, body |-> body]

\* A file's text: its physical lines, and whether the last one ends in "\n".
Text(lines, nl) == [lines |-> lines, nl |-> nl]

\* ------------------------------------------------------------------ utils.py

Min(a, b) == IF a < b THEN a ELSE b

\* gzip framing of text written at second mtime (the header carries the mtime).
Gz(text, mtime) == [text |-> text, mtime |-> mtime]

\* An upload is [name, gz, mtime, text]: gz says that the bytes sent start with 1F 8B.
IsGzip(upload) == upload.gz

\* Number of "\n" bytes in the decompressed data.
NumLines(data) ==
    IF data.text.nl THEN Len(data.text.lines)
    ELSE IF Len(data.text.lines) = 0 THEN 0 ELSE Len(data.text.lines) - 1

\* The digest is taken over the bytes handed in; distinct bytes, distinct digest.
CalculateSha256(data) == data

\* file.readline() for the i-th call: <<line, terminated>>, or nothing at end of file.
EOF == <<>>
ReadLine(text, i) ==
    IF i <= Len(text.lines)
    THEN <<text.lines[i], (i < Len(text.lines)) \/ text.nl>>
    ELSE EOF

RECURSIVE HeadersMatchLoop(_, _, _, _)
HeadersMatchLoop(f1, f2, i, check_size) ==
    IF check_size > 0
    THEN IF f1.corrupt \/ f2.corrupt
         THEN "error"
         ELSE IF ReadLine(f1.data.text, i) # ReadLine(f2.data.text, i)
              THEN "differ"
              ELSE HeadersMatchLoop(f1, f2, i + 1, check_size - 1)
    ELSE "match"

HeadersMatch(f1, f2, check_size) == HeadersMatchLoop(f1, f2, 1, check_size)

\* ------------------------------------------------------------------ file names

\* A file name is a sequence of symbols: single characters, and the composite
\* symbols below standing for a run of characters of a fixed shape.
DateSyms == {"<D1>", "<D2>", "<BAD>"}     \* dddd-dd-dd; <BAD> is no calendar date
UuidSyms == {"<U1>", "<U2>"}              \* a UUID

Uppers == <<"A","B","C","D","E","F","G","H","I","J","K","L","M",
            "N","O","P","Q","R","S","T","U","V","W","X","Y","Z">>
Lowers == <<"a","b","c","d","e","f","g","h","i","j","k","l","m",
            "n","o","p","q","r","s","t","u","v","w","x","y","z">>

UpperSet == {Uppers[i] : i \in 1..Len(Uppers)}
LowerOf == [c \in UpperSet |-> Lowers[CHOOSE i \in 1..Len(Uppers) : Uppers[i] = c]]

LowerSym(c) == IF c \in UpperSet THEN LowerOf[c] ELSE c

\* str.lower()
Lower(s) == [i \in 1..Len(s) |-> LowerSym(s[i])]

\* str.startswith()
StartsWith(s, p) == Len(s) >= Len(p) /\ SubSeq(s, 1, Len(p)) = p

\* LogFile.LogFileType, in declaration order.
LogFileTypes == <<"UNKNOWN", "GENERAL", "TESTING", "TUTOR">>

\* LogFileType.prefix; UNKNOWN has None.
HasPrefix(type) == type # "UNKNOWN"
Prefix(type) ==
    CASE type = "GENERAL" -> <<"l","e","a","r","n","_","p","y","t","h","o","n">>
      [] type = "TESTING" -> <<"t","e","s","t","i","n","g">>
      [] type = "TUTOR"   -> <<"d","e","l","p","h","i">>
      [] OTHER            -> <<>>

\* reversed(LogFile.LogFileType)
Reversed(s) == [i \in 1..Len(s) |-> s[Len(s) + 1 - i]]

\* A loop that compares the name as sent, without lower-casing it.
RECURSIVE ClassifyLoopAsSent(_, _, _)
ClassifyLoopAsSent(name, order, i) ==
    IF ~HasPrefix(order[i])
    THEN "error"
    ELSE IF StartsWith(name, Prefix(order[i]))
         THEN order[i]
         ELSE IF i = Len(order) THEN order[i]
              ELSE ClassifyLoopAsSent(name, order, i + 1)

\* The for loop of create(): the type the loop variable holds after the loop,
\* or "error" when type.prefix.lower() is evaluated on a prefix of None.
RECURSIVE ClassifyLoop(_, _, _)
ClassifyLoop(name, order, i) ==
    IF ~HasPrefix(order[i])
    THEN "error"
    ELSE IF StartsWith(Lower(name), Lower(Prefix(order[i])))
         THEN order[i]
         ELSE IF i = Len(order) THEN order[i]
              ELSE ClassifyLoop(name, order, i + 1)

Classify(name) == ClassifyLoop(name, Reversed(LogFileTypes), 1)

\* regex.search(name): the first symbol of the name the pattern matches, or NULL.
RECURSIVE SearchSym(_, _, _)
SearchSym(name, syms, i) ==
    IF i > Len(name) THEN NULL
    ELSE IF name[i] \in syms THEN name[i]
         ELSE SearchSym(name, syms, i + 1)

\* dateutil's parse of a matched dddd-dd-dd: the date, or "error" (ParserError).
ParseDate(sym) ==
    CASE sym = "<D1>" -> "D1"
      [] sym = "<D2>" -> "D2"
      [] OTHER        -> "error"

\* The date create() settles on: the explicit one, else the one in the name.
DeriveDate(name, date) ==
    IF date # NULL THEN date
    ELSE LET match == SearchSym(name, DateSyms, 1)
         IN  IF match # NULL THEN ParseDate(match) ELSE NULL

\* compress_file(): gzip written now, and ".gz" appended to the name.
CompressFile(upload, clock) ==
    [name |-> Append(upload.name, ".gz"), data |-> Gz(upload.text, clock)]

\* What create() works on after its first block.
Prepared(upload, clock) ==
    IF ~IsGzip(upload)
    THEN CompressFile(upload, clock)
    ELSE [name |-> upload.name, data |-> Gz(upload.text, upload.mtime)]

\* ------------------------------------------------------------------ LogFile rows

\* log is the FileField: the path the storage handed out and the uploaded name.
Row(id, hash, repository, type, date, n, name) ==
    [id |-> id, sha256_hash |-> hash, repository |-> repository, type |-> type,
     date |-> date, num_lines |-> n, processed |-> FALSE,
     log |-> [path |-> id, name |-> name]]

RowById(rs, id) == CHOOSE r \in rs : r.id = id

\* uploaded_at grows with the primary key.
UploadedAt(r) == r.id

\* Meta.ordering = ('-date', '-uploaded_at') on PostgreSQL: descending puts the
\* NULL dates first, then the later upload first.
Before(a, b) ==
    \/ a.date = NULL /\ b.date # NULL
    \/ a.date = "D2" /\ b.date = "D1"
    \/ a.date = b.date /\ UploadedAt(a) > UploadedAt(b)

RECURSIVE Ordered(_)
Ordered(rs) ==
    IF rs = {} THEN <<>>
    ELSE LET first == CHOOSE r \in rs : \A o \in rs \ {r} : Before(r, o)
         IN  <<first>> \o Ordered(rs \ {first})

\* The candidates of the merge scan, in the order the query returns them.
Candidates(rs, log_file, type) ==
    Ordered({r \in rs : /\ r.repository = log_file.repository
                        /\ r.type = type
                        /\ (r.date = log_file.date \/ r.date = NULL)
                        /\ r.id # log_file.id})

\* A delete that forgets the file on disk.
DeleteLogKeepFile(st, loser) ==
    [st EXCEPT !.rows = @ \ {loser},
               !.engLog = IF @ = loser.id THEN 0 ELSE @,
               !.removed = @ \cup {loser.id}]

\* other_log.delete() after os.remove(other_log.log.path): the row goes, its
\* backing file goes, and the engagement that pointed at it is set to NULL.
DeleteLog(st, loser) ==
    [st EXCEPT !.rows = @ \ {loser},
               !.files = [p \in (DOMAIN @) \ {loser.log.path} |-> @[p]],
               !.engLog = IF @ = loser.id THEN 0 ELSE @,
               !.removed = @ \cup {loser.id}]

\* A merge loop turn that keeps the file with fewer lines.
MergeStepKeepShorter(st, other_log) ==
    LET log_file == RowById(st.rows, st.lf)
        hm == HeadersMatch(st.files[other_log.log.path],
                           st.files[log_file.log.path],
                           Min(other_log.num_lines, log_file.num_lines))
    IN  IF hm = "match"
        THEN IF other_log.num_lines < log_file.num_lines
             THEN [DeleteLog(st, log_file) EXCEPT !.lf = other_log.id]
             ELSE DeleteLog(st, other_log)
        ELSE st

\* One turn of the merge loop for candidate other_log.
MergeStep(st, other_log) ==
    LET log_file == RowById(st.rows, st.lf)
        hm == IF {other_log.log.path, log_file.log.path} \subseteq DOMAIN st.files
              THEN HeadersMatch(st.files[other_log.log.path],
                                st.files[log_file.log.path],
                                Min(other_log.num_lines, log_file.num_lines))
              ELSE "error"   \* gzip.open() of a path that is gone
    IN  IF hm = "error" THEN [st EXCEPT !.err = TRUE]
        ELSE IF hm = "match"
             THEN IF other_log.num_lines > log_file.num_lines
                  THEN [DeleteLog(st, log_file) EXCEPT !.lf = other_log.id]
                  ELSE DeleteLog(st, other_log)
             ELSE st

RECURSIVE MergeScan(_, _)
MergeScan(st, cands) ==
    IF cands = <<>> \/ st.err THEN st
    ELSE MergeScan(MergeStep(st, Head(cands)), Tail(cands))

\* ------------------------------------------------------------------ tutor engagements

\* TutorEngagement.objects.get(engagement_id=...).start.date(): one engagement,
\* <U1>, is on record; NULL stands for DoesNotExist.
EngagementStart(sym) == IF sym = "<U1>" THEN "D1" ELSE NULL

\* The TUTOR branch of create(): link the engagement and take over its date.
LinkEngagement(st, name) ==
    LET match == SearchSym(name, UuidSyms, 1)
        log_file == RowById(st.rows, st.lf)
    IN  IF match # NULL /\ EngagementStart(match) # NULL
        THEN [st EXCEPT !.engLog = log_file.id,
                        !.rows = (@ \ {log_file}) \cup
                                 {[log_file EXCEPT !.date = EngagementStart(match)]}]
        ELSE st

\* ------------------------------------------------------------------ create()

\* LogFile.objects.get_or_create(sha256_hash=..., repository=..., defaults=...)
Existing(rs, hash, owner) ==
    {r \in rs : r.sha256_hash = hash /\ r.repository = owner}

GetOrCreate(rs, fs, id, owner, prep, type, date) ==
    LET hash == CalculateSha256(prep.data)
        found == Existing(rs, hash, owner)
    IN  IF found # {}
        THEN [rows |-> rs, files |-> fs, created |-> FALSE,
              lf |-> (CHOOSE r \in found : TRUE).id]
        ELSE [rows |-> rs \cup {Row(id, hash, owner, type, date, NumLines(prep.data),
                                     prep.name)},
              files |-> [p \in DOMAIN fs \cup {id} |->
                            IF p = id THEN [data |-> prep.data, corrupt |-> FALSE]
                            ELSE fs[p]],
              created |-> TRUE, lf |-> id]

\* A create() that runs the merge scan for every type.
CreateBodyMergeAll(rs, fs, eng, id, owner, prep, type, date) ==
    LET got == GetOrCreate(rs, fs, id, owner, prep, type, date)
        st0 == [rows |-> got.rows, files |-> got.files, engLog |-> eng,
                lf |-> got.lf, err |-> FALSE, removed |-> {},
                created |-> got.created]
        st1 == IF type = "TUTOR" THEN LinkEngagement(st0, prep.name) ELSE st0
    IN  MergeScan(st1, Candidates(st1.rows, RowById(st1.rows, st1.lf), type))

\* The body of create() once the date and the type are settled.
CreateBody(rs, fs, eng, id, owner, prep, type, date) ==
    LET got == GetOrCreate(rs, fs, id, owner, prep, type, date)
        st0 == [rows |-> got.rows, files |-> got.files, engLog |-> eng,
                lf |-> got.lf, err |-> FALSE, removed |-> {},
                created |-> got.created]
    IN  IF type = "TUTOR"
        THEN LinkEngagement(st0, prep.name)
        ELSE MergeScan(st0, Candidates(st0.rows, RowById(st0.rows, st0.lf), type))

\* ------------------------------------------------------------------ inputs

Owners == {"R1"}

LA == TextLine(<<Word("a")>>)
LB == TextLine(<<Word("b")>>)

StoreTexts == {Text(<<LA>>, TRUE), Text(<<LA, LB>>, TRUE), Text(<<LB>>, TRUE)}

GeneralName == <<"l","e","a","r","n","_","p","y","t","h","o","n",".log">>
TutorName == <<"D","e","l","p","h","i","_","<U1>",".log">>
OtherName == <<"p","y","t","e","s","t",".log">>
BadDateName == <<"t","e","s","t","i","n","g","-","<BAD>",".log">>
TestingName == <<"t","e","s","t","i","n","g","-","<D1>",".log">>

\* Sent as text, or sent already gzip-framed by a client that compressed at second 1.
Framings == {[gz |-> FALSE, mtime |-> 0], [gz |-> TRUE, mtime |-> 1]}

Upload(name, framing, text) ==
    [name |-> name, gz |-> framing.gz, mtime |-> framing.mtime, text |-> text]

\* A request: the authenticated owner, the uploaded file, the optional date.
Requests ==
    {[owner |-> o, upload |-> Upload(n, f, t), date |-> d] :
        o \in Owners, n \in {GeneralName, TutorName}, f \in Framings,
        t \in StoreTexts, d \in {NULL, "D1"}}
    \cup
    {[owner |-> o, upload |-> Upload(n, [gz |-> FALSE, mtime |-> 0], Text(<<LA>>, TRUE)),
      date |-> NULL] : o \in Owners, n \in {OtherName, BadDateName}}

NoCall ==
    [op |-> "none", result |-> "ok", created |-> FALSE, ret |-> 0, type |-> "UNKNOWN",
     req |-> [owner |-> NULL, upload |-> Upload(<<>>, [gz |-> FALSE, mtime |-> 0],
                                               Text(<<>>, FALSE)), date |-> NULL],
     before |-> [rows |-> {}, files |-> << >>, engLog |-> 0]]

Called(req, before, result, created, ret, type) ==
    [op |-> "ingest", result |-> result, created |-> created, ret |-> ret,
     type |-> type, req |-> req, before |-> before]

Idle == [state |-> "idle"]

\* No process_logs command is running; done lists the commands that ended.
NoTx == [events |-> {}, processed |-> {}, needs_rollback |-> FALSE]
NoOptions == [reset |-> FALSE, level |-> 0, logs |-> {}, repository |-> NULL]
NoRow == Row(0, [text |-> [lines |-> <<>>, nl |-> FALSE], mtime |-> 0], NULL, "UNKNOWN", NULL, 0, <<>>)
NoBatch ==
    [pc |-> "idle", opts |-> NoOptions, targets |-> <<>>, queue |-> <<>>,
     current |-> NoRow, tx |-> NoTx, locked |-> {}, runner_stack |-> <<>>,
     inserted |-> <<>>, stderr |-> [tool |-> 0, record |-> 0], done |-> <<>>]
Unclassified == [name |-> <<>>, type |-> "pending"]

\* ------------------------------------------------------------------ actions

Init ==
    /\ rows = {}
    /\ files = << >>
    /\ engLog = 0
    /\ nextId = 1
    /\ now = 1
    /\ last = NoCall
    /\ it = Idle
    /\ cls = Unclassified
    /\ events = {}
    /\ batch = NoBatch

\* A deletion of logs that leaves their events in place.
CascadeNothing(evts, removed) == evts

\* on_delete of LogEvent.log: the events of the deleted logs go with them.
NON_POLYMORPHIC_CASCADE(evts, removed) == {e \in evts : e.log \notin removed}

\* POST of a log by an authenticated owner: LogFileSerializer.create().
Ingest(req) ==
    /\ last.op = "none"
    /\ batch.pc = "idle"
    /\ LET prep == Prepared(req.upload, now)
           d == DeriveDate(prep.name, req.date)
           type == Classify(prep.name)
           before == [rows |-> rows, files |-> files, engLog |-> engLog]
       IN  IF d = "error" \/ type = "error"
           THEN /\ last' = Called(req, before, "error", FALSE, 0, "UNKNOWN")
                /\ UNCHANGED <<rows, files, engLog, nextId, events>>
           ELSE LET st == CreateBody(rows, files, engLog, nextId, req.owner, prep, type, d)
                IN  /\ st.created => nextId <= MaxUploads
                    /\ nextId' = IF st.created THEN nextId + 1 ELSE nextId
                    /\ files' = st.files
                    /\ IF st.err
                       THEN /\ last' = Called(req, before, "error", FALSE, 0, type)
                            /\ UNCHANGED <<rows, engLog, events>>
                       ELSE /\ rows' = st.rows
                            /\ engLog' = st.engLog
                            /\ events' = NON_POLYMORPHIC_CASCADE(events, st.removed)
                            /\ last' = Called(req, before, "ok", st.created, st.lf, type)
    /\ UNCHANGED <<now, it, cls, batch>>

\* The response leaves; the request is over.
Respond ==
    /\ last.op # "none"
    /\ last' = NoCall
    /\ UNCHANGED <<rows, files, engLog, nextId, now, it, cls, events, batch>>

\* A second passes.
Tick ==
    /\ last.op = "none"
    /\ now < MaxClock
    /\ now' = now + 1
    /\ UNCHANGED <<rows, files, engLog, nextId, last, it, cls, events, batch>>

Next ==
    \/ \E req \in Requests : Ingest(req)
    \/ Respond
    \/ Tick

Spec == Init /\ [][Next]_vars

\* ------------------------------------------------------------------ uploads of one kind in any order

\* The store after create() has run for request req at second clock, as
\* Ingest leaves it.
After(store, req, clock) ==
    LET prep == Prepared(req.upload, clock)
        d == DeriveDate(prep.name, req.date)
        type == Classify(prep.name)
    IN  IF d = "error" \/ type = "error" THEN store
        ELSE LET st == CreateBody(store.rows, store.files, store.engLog, store.nextId,
                                  req.owner, prep, type, d)
             IN  [rows |-> IF st.err THEN store.rows ELSE st.rows,
                  files |-> st.files,
                  engLog |-> IF st.err THEN store.engLog ELSE st.engLog,
                  nextId |-> IF st.created THEN store.nextId + 1 ELSE store.nextId]

\* Uploads of owner R1, all General, with and without a date.  A text of
\* one line without its "\n" counts zero lines.
OrderRequests ==
    {[owner |-> "R1", upload |-> Upload(GeneralName, [gz |-> FALSE, mtime |-> 0], t),
      date |-> d] :
        t \in {Text(<<LA>>, TRUE), Text(<<LA, LB>>, TRUE), Text(<<LA>>, FALSE),
               Text(<<TextLine(<<Word("z")>>)>>, FALSE)},
        d \in {NULL, "D1"}}

NextOrder ==
    \/ \E req \in OrderRequests : Ingest(req)
    \/ Respond

SpecOrder == Init /\ [][NextOrder]_vars

\* ------------------------------------------------------------------ classification alone

\* File names for the classification loop: a head (the three prefixes in
\* several spellings, near misses, nothing), then a middle that may hold
\* another type's prefix, then the extension.
ClassifyHeads ==
    {<<"d","e","l","p","h","i">>,
     <<"D","E","L","P","H","I">>,
     <<"D","e","l","p","h","i">>,
     <<"d","E","L","P","H","i">>,
     <<"t","e","s","t","i","n","g">>,
     <<"T","E","S","T","I","N","G">>,
     <<"T","e","s","t","i","n","g">>,
     <<"t","E","s","T","i","N","g">>,
     <<"l","e","a","r","n","_","p","y","t","h","o","n">>,
     <<"L","E","A","R","N","_","P","Y","T","H","O","N">>,
     <<"L","e","a","r","n","_","P","y","t","h","o","n">>,
     <<"l","e","a","r","n","_","P","y","t","h","o","n">>,
     <<"l","e","a","r","n">>,
     <<"t","e","s","t">>,
     <<"d","e","l","p","h">>,
     <<"p","y","t","e","s","t">>,
     <<"x","d","e","l","p","h","i">>,
     <<"_","t","e","s","t","i","n","g">>,
     <<"l","e","a","r","n","p","y","t","h","o","n">>,
     <<>>}
ClassifyMids ==
    {<<>>,
     <<"_","t","e","s","t","i","n","g">>,
     <<"_","l","e","a","r","n","_","p","y","t","h","o","n">>,
     <<"_","d","e","l","p","h","i">>,
     <<"_","D","E","L","P","H","I">>}
ClassifyNames == {h \o m \o <<".log">> : h \in ClassifyHeads, m \in ClassifyMids}

InitClassify ==
    /\ rows = {} /\ files = <<>> /\ engLog = 0 /\ nextId = 1 /\ now = 1
    /\ last = NoCall
    /\ it = Idle
    /\ cls \in {[name |-> n, type |-> "pending"] : n \in ClassifyNames}
    /\ events = {}
    /\ batch = NoBatch

\* The for loop of create() run on the name.
ClassifyName ==
    /\ cls.type = "pending"
    /\ cls' = [cls EXCEPT !.type = Classify(cls.name)]
    /\ UNCHANGED <<rows, files, engLog, nextId, now, last, it, events, batch>>

NextClassify == ClassifyName

SpecClassify == InitClassify /\ [][NextClassify]_vars

\* ------------------------------------------------------------------ stored bytes going bad

\* The bytes of a stored file stop being a gzip stream (the disk, not the
\* program): gzip.open() still opens the path, reading it raises.
Corrupt(p) ==
    /\ last.op = "none"
    /\ Cardinality({q \in DOMAIN files : files[q].corrupt}) < MaxFaults
    /\ ~files[p].corrupt
    /\ files' = [files EXCEPT ![p].corrupt = TRUE]
    /\ UNCHANGED <<rows, engLog, nextId, now, last, it, cls, events, batch>>

\* Uploads of one kind, sent as text.
FaultRequests ==
    {[owner |-> o, upload |-> Upload(GeneralName, [gz |-> FALSE, mtime |-> 0], t),
      date |-> d] : o \in Owners, t \in StoreTexts, d \in {NULL, "D1"}}

NextFault ==
    \/ \E req \in FaultRequests : Ingest(req)
    \/ Respond
    \/ Tick
    \/ \E p \in DOMAIN files : Corrupt(p)

SpecFault == Init /\ [][NextFault]_vars

\* ------------------------------------------------------------------ LogFile.LogIterator

\* regexes[0].search(line): only a line of the log shape matches.
PrimaryMatch(next_line) == next_line # EOF /\ next_line[1].shape = "log"

\* match.groupdict() of the primary pattern; message is what follows the
\* level up to, not including, the end of the line.
GroupDict(line) ==
    ("timestamp" :> line.ts) @@ ("logger" :> line.logger) @@
    ("level_no" :> line.level_no) @@ ("level" :> line.level) @@
    ("message" :> <<[text |-> line.body, nl |-> FALSE]>>)

\* type.regexes[1:], named by the token each one matches.
SecondaryRegexes(type) ==
    IF type = "TESTING" THEN <<"result", "start", "stop">> ELSE <<>>

\* regex.search(line) for a secondary pattern: the position of the leftmost
\* token it matches, 0 for no match.
RECURSIVE SearchTok(_, _, _)
SearchTok(body, k, i) ==
    IF i > Len(body) THEN 0
    ELSE IF body[i].k = k THEN i
         ELSE SearchTok(body, k, i + 1)

TokDict(tok) ==
    IF tok.k = "result" THEN ("result" :> tok.a) @@ ("identifier" :> tok.b)
    ELSE (tok.k :> tok.a)

\* additional_params(): the first secondary pattern that matches next_line
\* updates params; the others are not tried.
RECURSIVE AdditionalParams(_, _, _, _)
AdditionalParams(regexes, i, next_line, params) ==
    IF i > Len(regexes) THEN params
    ELSE LET at == SearchTok(next_line[1].body, regexes[i], 1)
         IN  IF at # 0 THEN TokDict(next_line[1].body[at]) @@ params
             ELSE AdditionalParams(regexes, i + 1, next_line, params)

\* dateutil's parse of the matched timestamp; a ParserError leaves the text.
TsParse(ts) ==
    IF ts = "tBAD" THEN [parsed |-> FALSE, at |-> ts] ELSE [parsed |-> TRUE, at |-> ts]

\* int() of the digits of level_no.
IntOf(digits) ==
    CASE digits = "5" -> 5
      [] digits = "20" -> 20
      [] digits = "45" -> 45

\* LogEvent.LogLevel(value): the member's number; 0 stands for both NOTSET
\* and the ValueError that unmarshall() turns into NOTSET.
LogLevel(label) ==
    CASE label \in {"DEBUG", "debug"}     -> 10
      [] label \in {"INFO", "info"}       -> 20
      [] label \in {"WARN", "WARNING"}    -> 30
      [] label \in {"ERROR", "EXCEPTION"} -> 40
      [] label \in {"CRITICAL", "FATAL"}  -> 50
      [] OTHER                            -> 0

unmarshall(params) ==
    IF DOMAIN params = {} THEN params
    ELSE [params EXCEPT !["timestamp"] = TsParse(@),
                        !["level"] = IF params["level_no"] # NULL
                                     THEN IntOf(params["level_no"])
                                     ELSE LogLevel(@)]

\* __init__: open the file when it exists and read one line ahead.
LogIterator(log_file) ==
    IF log_file.is_file
    THEN [state |-> "open", type |-> log_file.type, text |-> log_file.text,
          file_handle |-> TRUE, pos |-> 1,
          next_line |-> ReadLine(log_file.text, 1), line_no |-> 0, out |-> <<>>]
    ELSE [state |-> "open", type |-> log_file.type, text |-> log_file.text,
          file_handle |-> FALSE, pos |-> 0,
          next_line |-> EOF, line_no |-> -1, out |-> <<>>]

\* A readline() that does not count the line.
readlineUncounted(i) ==
    [i EXCEPT !.next_line = ReadLine(i.text, i.pos + 1),
              !.pos = @ + 1]

readline(i) ==
    [i EXCEPT !.next_line = ReadLine(i.text, i.pos + 1),
              !.pos = @ + 1,
              !.line_no = @ + 1]

\* A while loop that reads the lines up to the next match and drops them.
RECURSIVE WhileNoMatchDropping(_, _)
WhileNoMatchDropping(i, params) ==
    LET j == readline(i)
    IN  IF j.next_line # EOF /\ ~PrimaryMatch(j.next_line)
        THEN WhileNoMatchDropping(j, params)
        ELSE [i |-> j, params |-> params]

\* The while loop of __next__: every line read that does not match the
\* primary pattern goes, after a "\n", to the end of the message, and the
\* secondary patterns are tried on it.
RECURSIVE WhileNoMatch(_, _)
WhileNoMatch(i, params) ==
    LET j == readline(i)
    IN  IF j.next_line # EOF /\ ~PrimaryMatch(j.next_line)
        THEN WhileNoMatch(j,
                 AdditionalParams(SecondaryRegexes(j.type), 1, j.next_line,
                     [params EXCEPT !["message"] =
                         Append(@, [text |-> j.next_line[1].body,
                                    nl |-> j.next_line[2]])]))
        ELSE [i |-> j, params |-> params]

\* The body of __next__ past the StopIteration test: the iterator after the
\* call and the record it returns.
NextRecord(i) ==
    IF ~PrimaryMatch(i.next_line)
    THEN [i |-> readline(i), record |-> <<>>]
    ELSE LET params == AdditionalParams(SecondaryRegexes(i.type), 1, i.next_line,
                                        GroupDict(i.next_line[1]))
                        @@ ("line_begin" :> i.line_no)
             w == WhileNoMatch(i, params)
         IN  [i |-> w.i,
              record |-> unmarshall(w.params @@ ("line_end" :> w.i.line_no))]

\* __next__ returning a record.
IterNext ==
    /\ it.state = "open"
    /\ it.file_handle /\ it.next_line # EOF
    /\ it' = [NextRecord(it).i EXCEPT !.out = Append(@, NextRecord(it).record)]
    /\ UNCHANGED <<rows, files, engLog, nextId, now, last, cls, events, batch>>

\* __next__ raising StopIteration.
IterStop ==
    /\ it.state = "open"
    /\ ~it.file_handle \/ it.next_line = EOF
    /\ it' = [it EXCEPT !.state = "done"]
    /\ UNCHANGED <<rows, files, engLog, nextId, now, last, cls, events, batch>>

\* The lines the parsed files are made of.
P1 == LogLine("t1", "x", NULL, "INFO", <<Word("start")>>)
P2 == LogLine("t2", "x", "45", "ERROR", <<Word("end")>>)
PS == LogLine("t1", "runner", NULL, "info", <<StartTok("A")>>)
PB == LogLine("tBAD", "x", NULL, "TRACE", <<StopTok("A"), Word("end")>>)
XL == TextLine(<<Word("extra line")>>)
XR == TextLine(<<Word("extra"), ResultTok("PASSED", "idA")>>)
ParseLines == {P1, P2, PS, PB, XL, XR}

ParseTexts ==
    {Text(ls, nl) : ls \in UNION {[1..n -> ParseLines] : n \in 0..MaxLines},
                    nl \in BOOLEAN}

ParseFiles ==
    {[type |-> t, text |-> x, is_file |-> TRUE] :
        t \in {"GENERAL", "TESTING"}, x \in ParseTexts}
    \cup {[type |-> "GENERAL", text |-> Text(<<>>, FALSE), is_file |-> FALSE]}

InitParse ==
    /\ rows = {} /\ files = <<>> /\ engLog = 0 /\ nextId = 1 /\ now = 1
    /\ last = NoCall
    /\ cls = Unclassified
    /\ it \in {LogIterator(f) : f \in ParseFiles}
    /\ events = {}
    /\ batch = NoBatch

NextParse == IterNext \/ IterStop

SpecParse == InitParse /\ [][NextParse]_vars

\* ------------------------------------------------------------------ event tables

\* log_file.repository.enrollment.course: R1 is enrolled in course K1, R2
\* has no enrollment (RelatedObjectDoesNotExist).
Course(repository) == IF repository = "R1" THEN "K1" ELSE NULL

\* The Assignment rows, by the course their module's repository serves.
Assignments ==
    {[course |-> "K1", identifier |-> "idA"], [course |-> "K2", identifier |-> "idZ"]}

\* Assignment.objects.filter(courses=course, identifier=...).distinct(): the
\* rows first() chooses from.
ResolveAssignment(course, identifier) ==
    {a \in Assignments : a.course = course /\ a.identifier = identifier}

\* TestEvent.Runner(value) by label or alts, case-folded.
Runner(value) ==
    CASE value \in {"tutor", "delphi"}       -> "TUTOR"
      [] value \in {"pytest", "test"}        -> "PYTEST"
      [] value \in {"docs", "doc", "sphinx"} -> "DOCS"
      [] OTHER                               -> "ValueError"

\* TestEvent.Result(value) by label or alts, case-folded.
Result(value) ==
    CASE value \in {"PASSED", "passed", "pass"}            -> "PASSED"
      [] value \in {"FAILED", "failed", "fail", "failure"} -> "FAILED"
      [] value \in {"ERRORED", "errored", "error"}         -> "ERRORED"
      [] value \in {"SKIPPED", "skipped", "skip"}          -> "SKIPPED"
      [] OTHER                                             -> "ValueError"

NoStamp == [parsed |-> FALSE, at |-> NULL]
NoAssignment == [course |-> NULL, identifier |-> NULL]

\* A row of TimelineEvent with its LogEvent / TestEvent / ToolRun part.
LogEventRow(record, log_file) ==
    [kind |-> "LogEvent", timestamp |-> record["timestamp"],
     repository |-> log_file.repository, log |-> log_file.id,
     level |-> record["level"], line_begin |-> record["line_begin"],
     line_end |-> record["line_end"], message |-> record["message"],
     logger |-> record["logger"],
     result |-> NULL, assignment |-> NoAssignment, runner |-> NULL,
     tool |-> NULL, stop |-> NoStamp]

TestEventRow(record, log_file) ==
    [LogEventRow(record, log_file) EXCEPT
        !.kind = "TestEvent",
        !.result = Result(record["result"]),
        !.assignment = record["assignment"],
        !.runner = IF "runner" \in DOMAIN record THEN Runner(record["runner"]) ELSE NULL]

ToolRunRow(kwargs) ==
    [kind |-> "ToolRun", timestamp |-> kwargs["timestamp"],
     repository |-> kwargs["repository"], log |-> 0,
     level |-> 0, line_begin |-> 0, line_end |-> 0, message |-> <<>>,
     logger |-> NULL, result |-> NULL, assignment |-> NoAssignment, runner |-> NULL,
     tool |-> kwargs["tool"], stop |-> kwargs["stop"]]

\* TimelineEvent.Meta.unique_together = (timestamp, repository).
UniqueClash(evts, row) ==
    \E e \in evts : e.timestamp = row.timestamp /\ e.repository = row.repository

\* The names a ToolRun query can filter on: its own fields and those of
\* TimelineEvent.
ToolRunFields ==
    {"id", "polymorphic_ctype", "timestamp", "repository", "timelineevent_ptr",
     "stop", "tool"}

\* ToolRun.objects.get_or_create(**kwargs) inside the transaction tx.  A
\* keyword that is no field raises FieldError while the query is built; a
\* clash on insert is rolled back to get_or_create's own savepoint.
GetOrCreateToolRun(tx, kwargs) ==
    IF ~(DOMAIN kwargs \subseteq ToolRunFields) \/ tx.needs_rollback
    THEN [raised |-> TRUE, tx |-> tx, created |-> FALSE]
    ELSE LET row == ToolRunRow(kwargs)
         IN  IF row \in tx.events
             THEN [raised |-> FALSE, tx |-> tx, created |-> FALSE]
             ELSE IF UniqueClash(tx.events, row)
                  THEN [raised |-> TRUE, tx |-> tx, created |-> FALSE]
                  ELSE [raised |-> FALSE, created |-> TRUE,
                        tx |-> [tx EXCEPT !.events = @ \cup {row}]]

\* EventType.objects.create(**fields) inside the try of process_log.  With
\* the transaction already marked for rollback the insert raises; a value
\* the columns reject or a clash on (timestamp, repository) raises inside
\* save()'s atomic(savepoint=False), which marks the transaction for rollback.
\* Every exception is caught and written to stderr.
CreateEvent(b, row) ==
    IF b.tx.needs_rollback
    THEN [b EXCEPT !.stderr.record = @ + 1]
    ELSE IF \/ ~row.timestamp.parsed
            \/ row.result = "ValueError"
            \/ row.runner = "ValueError"
            \/ UniqueClash(b.tx.events, row)
         THEN [b EXCEPT !.stderr.record = @ + 1, !.tx.needs_rollback = TRUE]
         ELSE [b EXCEPT !.tx.events = @ \cup {row}, !.inserted = Append(@, row)]

\* The 'stop' branch: pop when the top of the stack carries the tag, then
\* try to store the ToolRun.
StopMarker(b, log_file, record) ==
    IF b.runner_stack # <<>> /\ b.runner_stack[Len(b.runner_stack)].tool = record["stop"]
    THEN LET tool_start == b.runner_stack[Len(b.runner_stack)]
             got == GetOrCreateToolRun(b.tx,
                        ("tool" :> tool_start.tool) @@
                        ("timestamp" :> tool_start.timestamp) @@
                        ("stop" :> record["timestamp"]) @@
                        ("repository" :> log_file.repository) @@
                        ("log" :> log_file.id))
             popped == [b EXCEPT !.runner_stack = SubSeq(@, 1, Len(@) - 1)]
         IN  IF got.raised
             THEN [popped EXCEPT !.stderr.tool = @ + 1]
             ELSE [popped EXCEPT !.tx = got.tx,
                                 !.inserted = IF got.created
                                              THEN Append(@, ToolRunRow(
                                                  ("tool" :> tool_start.tool) @@
                                                  ("timestamp" :> tool_start.timestamp) @@
                                                  ("stop" :> record["timestamp"]) @@
                                                  ("repository" :> log_file.repository)))
                                              ELSE @]
    ELSE b

\* A 'result' branch that takes the runner from the top of the stack.
ResultRecordTop(b, log_file, course, record) ==
    IF b.tx.needs_rollback
    THEN [b EXCEPT !.pc = "failed"]
    ELSE LET found == ResolveAssignment(course, record["identifier"])
         IN  IF found # {}
             THEN CreateEvent(b, TestEventRow(
                      ("assignment" :> (CHOOSE a \in found : TRUE)) @@
                      (IF b.runner_stack # <<>>
                       THEN ("runner" :> b.runner_stack[Len(b.runner_stack)].tool) @@ record
                       ELSE record),
                      log_file))
             ELSE CreateEvent(b, LogEventRow(record, log_file))

\* The 'result' and 'identifier' branch: look the assignment up (a query, so
\* it raises when the transaction is marked for rollback), then create a
\* TestEvent when it resolved and a LogEvent when it did not.
ResultRecord(b, log_file, course, record) ==
    IF b.tx.needs_rollback
    THEN [b EXCEPT !.pc = "failed"]
    ELSE LET found == ResolveAssignment(course, record["identifier"])
         IN  IF found # {}
             THEN CreateEvent(b, TestEventRow(
                      ("assignment" :> (CHOOSE a \in found : TRUE)) @@
                      (IF b.runner_stack # <<>>
                       THEN ("runner" :> b.runner_stack[1].tool) @@ record
                       ELSE record),
                      log_file))
             ELSE CreateEvent(b, LogEventRow(record, log_file))

\* A turn of the loop that passes only the records above the threshold.
ProcessRecordAbove(b, log_file, course, record) ==
    IF DOMAIN record = {} THEN b
    ELSE IF ~(record["level"] > b.opts.level \/ log_file.type = "TESTING") THEN b
    ELSE IF log_file.type # "TESTING" THEN CreateEvent(b, LogEventRow(record, log_file))
    ELSE IF "start" \in DOMAIN record
         THEN [b EXCEPT !.runner_stack =
                  Append(@, [tool |-> record["start"], timestamp |-> record["timestamp"]])]
    ELSE IF "stop" \in DOMAIN record THEN StopMarker(b, log_file, record)
    ELSE IF "result" \in DOMAIN record /\ "identifier" \in DOMAIN record
         THEN ResultRecord(b, log_file, course, record)
    ELSE b

\* One turn of the for loop of process_log with the record __next__ returned.
ProcessRecord(b, log_file, course, record) ==
    IF DOMAIN record = {} THEN b
    ELSE IF ~(record["level"] >= b.opts.level \/ log_file.type = "TESTING") THEN b
    ELSE IF log_file.type # "TESTING" THEN CreateEvent(b, LogEventRow(record, log_file))
    ELSE IF "start" \in DOMAIN record
         THEN [b EXCEPT !.runner_stack =
                  Append(@, [tool |-> record["start"], timestamp |-> record["timestamp"]])]
    ELSE IF "stop" \in DOMAIN record THEN StopMarker(b, log_file, record)
    ELSE IF "result" \in DOMAIN record /\ "identifier" \in DOMAIN record
         THEN ResultRecord(b, log_file, course, record)
    ELSE b

\* ------------------------------------------------------------------ process_logs

MaxBatches == 2

\* qry of handle(): the stored logs the options select.
Selected(rs, opts) ==
    {r \in rs : /\ opts.reset \/ ~r.processed
                /\ opts.repository = NULL \/ r.repository = opts.repository
                /\ opts.logs = {} \/ r.id \in opts.logs}

\* A --reset that deletes nothing.
ResetDeletesNothing(evts, logs) == {}

\* A --reset that deletes the events of every log.
ResetDeletesAll(evts, logs) == evts

\* The rows of TestEvent and LogEvent that --reset deletes.
ResetDeletes(evts, logs) ==
    {e \in evts : e.kind \in {"TestEvent", "LogEvent"} /\ e.log \in {r.id : r \in logs}}

\* handle() up to the for loop: open the transaction and delete what
\* --reset asks for; no row of LogFile is locked yet.
BatchBegin(opts) ==
    /\ batch.pc = "idle"
    /\ Len(batch.done) < MaxBatches
    /\ LET logs == Selected(rows, opts)
       IN  batch' = [batch EXCEPT
               !.pc = "select", !.opts = opts,
               !.tx = [events |-> IF opts.reset THEN events \ ResetDeletes(events, logs)
                                  ELSE events,
                       processed |-> {}, needs_rollback |-> FALSE]]
    /\ UNCHANGED <<rows, files, engLog, nextId, now, last, it, cls, events>>

\* A fetch of the logs named by --logs one by one, failing on an id that has
\* no row.
SelectForUpdateGet ==
    /\ batch.pc = "select"
    /\ LET logs == Selected(rows, batch.opts)
       IN  batch' = [batch EXCEPT
               !.pc = IF batch.opts.logs \subseteq {r.id : r \in rows}
                      THEN "next" ELSE "failed",
               !.targets = Ordered(logs), !.queue = Ordered(logs),
               !.locked = {r.id : r \in logs}]
    /\ UNCHANGED <<rows, files, engLog, nextId, now, last, it, cls, events>>

\* The for loop evaluates LogFile.objects.filter(qry).select_for_update():
\* the selected logs are fetched in Meta.ordering and their rows stay locked
\* until the transaction ends.
SelectForUpdate ==
    /\ batch.pc = "select"
    /\ LET logs == Selected(rows, batch.opts)
       IN  batch' = [batch EXCEPT
               !.pc = "next",
               !.targets = Ordered(logs), !.queue = Ordered(logs),
               !.locked = {r.id : r \in logs}]
    /\ UNCHANGED <<rows, files, engLog, nextId, now, last, it, cls, events>>

\* The stored file as the iterator sees it.
Stored(log_file) ==
    IF log_file.log.path \in DOMAIN files
    THEN [type |-> log_file.type, text |-> files[log_file.log.path].data.text,
          is_file |-> TRUE]
    ELSE [type |-> log_file.type, text |-> Text(<<>>, FALSE), is_file |-> FALSE]

\* An opening of the next log that marks it processed before the scan.
OpenLogMarking ==
    /\ batch.pc = "next" /\ batch.queue # <<>>
    /\ LET log_file == Head(batch.queue)
       IN  IF \/ Course(log_file.repository) = NULL
              \/ log_file.log.path \in DOMAIN files /\ files[log_file.log.path].corrupt
           THEN /\ batch' = [batch EXCEPT !.pc = "failed", !.current = log_file]
                /\ it' = it
           ELSE /\ batch' = [batch EXCEPT !.pc = "scan", !.current = log_file,
                                          !.runner_stack = <<>>,
                                          !.tx.processed = @ \cup {log_file.id}]
                /\ it' = LogIterator(Stored(log_file))
    /\ UNCHANGED <<rows, files, engLog, nextId, now, last, cls, events>>

\* An opening of the next log that goes on with the stack the log before
\* it left.
OpenLogKeepingStack ==
    /\ batch.pc = "next" /\ batch.queue # <<>>
    /\ LET log_file == Head(batch.queue)
       IN  IF \/ Course(log_file.repository) = NULL
              \/ log_file.log.path \in DOMAIN files /\ files[log_file.log.path].corrupt
           THEN /\ batch' = [batch EXCEPT !.pc = "failed", !.current = log_file]
                /\ it' = it
           ELSE /\ batch' = [batch EXCEPT !.pc = "scan", !.current = log_file]
                /\ it' = LogIterator(Stored(log_file))
    /\ UNCHANGED <<rows, files, engLog, nextId, now, last, cls, events>>

\* The for loop takes the next log; process_log() looks up the course of its
\* repository and opens the iterator.
OpenLog ==
    /\ batch.pc = "next" /\ batch.queue # <<>>
    /\ LET log_file == Head(batch.queue)
       IN  IF \/ Course(log_file.repository) = NULL
              \/ log_file.log.path \in DOMAIN files /\ files[log_file.log.path].corrupt
           THEN /\ batch' = [batch EXCEPT !.pc = "failed", !.current = log_file]
                /\ it' = it
           ELSE /\ batch' = [batch EXCEPT !.pc = "scan", !.current = log_file,
                                          !.runner_stack = <<>>]
                /\ it' = LogIterator(Stored(log_file))
    /\ UNCHANGED <<rows, files, engLog, nextId, now, last, cls, events>>

\* One turn of the for loop of process_log().
ScanRecord ==
    /\ batch.pc = "scan"
    /\ it.file_handle /\ it.next_line # EOF
    /\ it' = NextRecord(it).i
    /\ batch' = ProcessRecord(batch, batch.current, Course(batch.current.repository),
                              NextRecord(it).record)
    /\ UNCHANGED <<rows, files, engLog, nextId, now, last, cls, events>>

\* A save() that writes the processed flag outside the transaction.
CloseLogSaving ==
    /\ batch.pc = "scan"
    /\ ~it.file_handle \/ it.next_line = EOF
    /\ batch' = IF batch.tx.needs_rollback
                THEN [batch EXCEPT !.pc = "failed"]
                ELSE [batch EXCEPT !.pc = "next", !.queue = Tail(@),
                                   !.tx.processed = @ \cup {batch.current.id}]
    /\ rows' = IF batch.tx.needs_rollback THEN rows
               ELSE {IF r.id = batch.current.id THEN [r EXCEPT !.processed = TRUE] ELSE r :
                        r \in rows}
    /\ it' = Idle
    /\ UNCHANGED <<files, engLog, nextId, now, last, cls, events>>

\* StopIteration ends process_log(); handle() sets processed and saves, a
\* query that raises when the transaction is marked for rollback.
CloseLog ==
    /\ batch.pc = "scan"
    /\ ~it.file_handle \/ it.next_line = EOF
    /\ batch' = IF batch.tx.needs_rollback
                THEN [batch EXCEPT !.pc = "failed"]
                ELSE [batch EXCEPT !.pc = "next", !.queue = Tail(@),
                                   !.tx.processed = @ \cup {batch.current.id}]
    /\ it' = Idle
    /\ UNCHANGED <<rows, files, engLog, nextId, now, last, cls, events>>

\* What done keeps of a command that ended.
Ended(b, outcome, evts) ==
    [opts |-> b.opts, outcome |-> outcome, targets |-> b.targets,
     inserted |-> b.inserted, stderr |-> b.stderr, events |-> evts]

\* The for loop is over: the atomic block exits and commits.
Commit ==
    /\ batch.pc = "next" /\ batch.queue = <<>>
    /\ events' = batch.tx.events
    /\ rows' = {IF r.id \in batch.tx.processed THEN [r EXCEPT !.processed = TRUE] ELSE r :
                    r \in rows}
    /\ batch' = [NoBatch EXCEPT
                    !.done = Append(batch.done, Ended(batch, "committed", batch.tx.events))]
    /\ UNCHANGED <<files, engLog, nextId, now, last, it, cls>>

\* An exception left the atomic block: everything the command wrote is
\* rolled back.
Abort ==
    /\ batch.pc = "failed"
    /\ batch' = [NoBatch EXCEPT !.done = Append(batch.done, Ended(batch, "failed", events))]
    /\ it' = Idle
    /\ UNCHANGED <<rows, files, engLog, nextId, now, last, cls, events>>

\* ------------------------------------------------------------------ uploads beside a running command

\* The merge loop up to the first delete that meets a row in busy.
RECURSIVE MergeScanUntil(_, _, _)
MergeScanUntil(st, cands, busy) ==
    IF cands = <<>> \/ st.err THEN st
    ELSE LET nx == MergeStep(st, Head(cands))
         IN  IF nx.removed \cap busy # {} THEN nx
             ELSE MergeScanUntil(nx, Tail(cands), busy)

\* The rows create() asks a lock for: the candidates of the merge loop
\* (select_for_update) and the rows it deletes.
AsksLock(got, st, type) ==
    st.removed \cup
    (IF type = "TUTOR" THEN {}
     ELSE {Candidates(got.rows, RowById(got.rows, got.lf), type)[n].id :
              n \in 1..Len(Candidates(got.rows, RowById(got.rows, got.lf), type))})

\* The logs whose events the open transaction of process_logs has deleted
\* and not yet committed.
PendingDeletes == {e.log : e \in events \ batch.tx.events}

\* create() while a process_logs transaction is open (READ COMMITTED).  It
\* waits while the command holds the lock of a row it asks for.  When it
\* deletes a log whose events the command has deleted in its transaction,
\* its cascade waits for the command while the command's select_for_update
\* waits for it: the database ends the deadlock by aborting one of the two.
\* Otherwise it commits, and the command sees what it committed.
IngestBeside(req, victim) ==
    /\ last.op = "none"
    /\ batch.pc # "idle"
    /\ LET prep == Prepared(req.upload, now)
           d == DeriveDate(prep.name, req.date)
           type == Classify(prep.name)
           before == [rows |-> rows, files |-> files, engLog |-> engLog]
       IN  IF d = "error" \/ type = "error"
           THEN /\ victim = "none"
                /\ last' = Called(req, before, "error", FALSE, 0, "UNKNOWN")
                /\ UNCHANGED <<rows, files, engLog, nextId, events, batch>>
           ELSE LET got == GetOrCreate(rows, files, nextId, req.owner, prep, type, d)
                    st == CreateBody(rows, files, engLog, nextId, req.owner, prep, type, d)
                    clash == st.removed \cap PendingDeletes # {}
                IN  /\ st.created => nextId <= MaxUploads
                    /\ AsksLock(got, st, type) \cap batch.locked = {}
                    /\ victim = "none" <=> (st.err \/ ~clash)
                    /\ nextId' = IF st.created THEN nextId + 1 ELSE nextId
                    /\ IF st.err
                       THEN /\ files' = st.files
                            /\ last' = Called(req, before, "error", FALSE, 0, type)
                            /\ UNCHANGED <<rows, engLog, events, batch>>
                       ELSE IF victim = "upload"
                       THEN /\ files' = MergeScanUntil(
                                           [rows |-> got.rows, files |-> got.files,
                                            engLog |-> engLog, lf |-> got.lf, err |-> FALSE,
                                            removed |-> {}, created |-> got.created],
                                           Candidates(got.rows, RowById(got.rows, got.lf), type),
                                           PendingDeletes).files
                            /\ last' = Called(req, before, "error", FALSE, 0, type)
                            /\ UNCHANGED <<rows, engLog, events, batch>>
                       ELSE /\ files' = st.files
                            /\ rows' = st.rows
                            /\ engLog' = st.engLog
                            /\ events' = NON_POLYMORPHIC_CASCADE(events, st.removed)
                            /\ batch' = [batch EXCEPT
                                  !.tx.events = NON_POLYMORPHIC_CASCADE(@, st.removed),
                                  !.pc = IF victim = "command" THEN "failed" ELSE @]
                            /\ last' = Called(req, before, "ok", st.created, st.lf, type)
    /\ UNCHANGED <<now, it, cls>>

\* ------------------------------------------------------------------ one TESTING log

MaxBracket == 4

\* The lines of a test log: runs of pytest and docs starting and stopping,
\* results for an assignment of the course (idA) and for one of another
\* course (idZ), and a line with nothing to extract.
SA == LogLine("t1", "runner", NULL, "INFO", <<StartTok("pytest")>>)
SB == LogLine("t2", "runner", NULL, "INFO", <<StartTok("docs")>>)
EB == LogLine("t3", "runner", NULL, "INFO", <<StopTok("docs")>>)
EA == LogLine("t4", "runner", NULL, "INFO", <<StopTok("pytest")>>)
RA == LogLine("t5", "x", NULL, "INFO", <<ResultTok("PASSED", "idA")>>)
RZ == LogLine("t6", "x", NULL, "INFO", <<ResultTok("PASSED", "idZ")>>)
PI == LogLine("t7", "x", NULL, "ERROR", <<Word("plain")>>)
ExtractLines == {SA, SB, EB, EA, RA, RZ, PI}

ExtractTexts == {Text(ls, TRUE) : ls \in UNION {[1..n -> ExtractLines] : n \in 0..MaxBracket}}

\* A log as create() stored it at second 1.
StoredRow(id, repository, type, text) ==
    Row(id, CalculateSha256(Gz(text, 1)), repository, type, "D1", NumLines(Gz(text, 1)),
        IF type = "TESTING" THEN TestingName ELSE GeneralName)

StoredFile(text) == [data |-> Gz(text, 1), corrupt |-> FALSE]

InitExtract ==
    /\ \E text \in ExtractTexts :
          /\ rows = {StoredRow(1, "R1", "TESTING", text)}
          /\ files = (1 :> StoredFile(text))
    /\ engLog = 0 /\ nextId = 2 /\ now = 1
    /\ last = NoCall
    /\ it = Idle
    /\ cls = Unclassified
    /\ events = {}
    /\ batch = NoBatch

\* process_logs with its defaults: --level ERROR, no --reset.
Defaults == [reset |-> FALSE, level |-> 40, logs |-> {}, repository |-> NULL]

NextExtract ==
    \/ BatchBegin(Defaults)
    \/ SelectForUpdate
    \/ OpenLog
    \/ ScanRecord
    \/ CloseLog
    \/ Commit
    \/ Abort

SpecExtract == InitExtract /\ [][NextExtract]_vars

\* ------------------------------------------------------------------ one TESTING log, reprocessed

\* process_logs --reset with the default level.
Reprocess == [reset |-> TRUE, level |-> 40, logs |-> {}, repository |-> NULL]

NextReprocess ==
    \/ BatchBegin(Reprocess)
    \/ SelectForUpdate
    \/ OpenLog
    \/ ScanRecord
    \/ CloseLog
    \/ Commit
    \/ Abort

SpecReprocess == InitExtract /\ [][NextReprocess]_vars

\* ------------------------------------------------------------------ batches over stored logs

MaxRecords == 2
MaxLogs == 2

\* Lines at and below the default threshold, and one whose timestamp does
\* not parse.
GE == LogLine("t1", "x", NULL, "ERROR", <<Word("a")>>)
GI == LogLine("t2", "x", NULL, "INFO", <<Word("b")>>)
GB == LogLine("tBAD", "x", NULL, "ERROR", <<Word("c")>>)
ProcessLines == {GE, GI, GB}

ProcessTexts == {Text(ls, TRUE) : ls \in UNION {[1..n -> ProcessLines] : n \in 0..MaxRecords}}

\* R1 is enrolled in a course, R2 is not.
Repositories == {"R1", "R2"}

ProcessLogs(id) ==
    {StoredRow(id, o, t, x) : o \in Repositories, t \in {"GENERAL", "TESTING"},
                              x \in ProcessTexts}

\* create() would have merged the two logs: same repository, same type (and
\* here the same date), and the same lines as far as the shorter one goes.
Mergeable(a, b) ==
    /\ a.repository = b.repository
    /\ a.type = b.type
    /\ HeadersMatch([data |-> a.sha256_hash, corrupt |-> FALSE],
                    [data |-> b.sha256_hash, corrupt |-> FALSE],
                    Min(a.num_lines, b.num_lines)) = "match"

\* One to MaxLogs stored logs, unique in (repository, sha256_hash), no two
\* of which create() would have merged.
InitProcess ==
    /\ \E n \in 1..MaxLogs : \E f \in [1..n -> UNION {ProcessLogs(i) : i \in 1..n}] :
          /\ \A i \in 1..n : f[i].id = i
          /\ \A i, j \in 1..n :
                i # j => /\ ~(f[i].repository = f[j].repository
                              /\ f[i].sha256_hash = f[j].sha256_hash)
                         /\ ~Mergeable(f[i], f[j])
          /\ rows = {f[i] : i \in 1..n}
          /\ files = [i \in 1..n |-> [data |-> f[i].sha256_hash, corrupt |-> FALSE]]
          /\ nextId = n + 1
    /\ engLog = 0 /\ now = 1
    /\ last = NoCall
    /\ it = Idle
    /\ cls = Unclassified
    /\ events = {}
    /\ batch = NoBatch

BatchOptions ==
    {[reset |-> r, level |-> l, logs |-> g, repository |-> NULL] :
        r \in BOOLEAN, l \in {20, 40}, g \in {{}, {1}}}

NextProcess ==
    \/ \E opts \in BatchOptions : BatchBegin(opts)
    \/ SelectForUpdate
    \/ OpenLog
    \/ ScanRecord
    \/ CloseLog
    \/ Commit
    \/ Abort

SpecProcess == InitProcess /\ [][NextProcess]_vars

\* ------------------------------------------------------------------ two TESTING logs of consecutive days

\* The lines of the second day.
EA2 == LogLine("t8", "runner", NULL, "INFO", <<StopTok("pytest")>>)
SA2 == LogLine("t9", "runner", NULL, "INFO", <<StartTok("pytest")>>)
RA2 == LogLine("t10", "x", NULL, "INFO", <<ResultTok("PASSED", "idA")>>)

MaxDayLines == 2

\* The texts of up to MaxDayLines of the given lines.
DayTexts(lines) ==
    {Text(ls, TRUE) : ls \in UNION {[1..n -> lines] : n \in 0..MaxDayLines}}

\* The Testing logs of repository R1 for day D1 and for day D2.
InitPair ==
    /\ \E x \in DayTexts({SA, EA, RA}), y \in DayTexts({SA2, EA2, RA2}) :
          /\ rows = {StoredRow(1, "R1", "TESTING", x),
                     [StoredRow(2, "R1", "TESTING", y) EXCEPT
                         !.date = "D2",
                         !.log.name = <<"t","e","s","t","i","n","g","-","<D2>",".log">>]}
          /\ files = (1 :> StoredFile(x)) @@ (2 :> StoredFile(y))
    /\ engLog = 0 /\ nextId = 3 /\ now = 1
    /\ last = NoCall
    /\ it = Idle
    /\ cls = Unclassified
    /\ events = {}
    /\ batch = NoBatch

NextPair ==
    \/ BatchBegin(Defaults)
    \/ SelectForUpdate
    \/ OpenLog
    \/ ScanRecord
    \/ CloseLog
    \/ Commit
    \/ Abort

SpecPair == InitPair /\ [][NextPair]_vars

\* ------------------------------------------------------------------ batches with every filter

\* Commands with and without --reset, over all logs, log 1, the logs of
\* repository R1, or both filters.
SelectOptions ==
    {[reset |-> r, level |-> 20, logs |-> g, repository |-> o] :
        r \in BOOLEAN, g \in {{}, {1}}, o \in {NULL, "R1"}}

NextSelect ==
    \/ \E opts \in SelectOptions : BatchBegin(opts)
    \/ SelectForUpdate
    \/ OpenLog
    \/ ScanRecord
    \/ CloseLog
    \/ Commit
    \/ Abort

SpecSelect == InitProcess /\ [][NextSelect]_vars

\* ------------------------------------------------------------------ uploads and commands together

\* Uploads of repository R1: a General log of one ERROR line and the same log
\* grown by an INFO line, with and without a date.
GrowingTexts == {Text(<<GE>>, TRUE), Text(<<GE, GI>>, TRUE)}

StoreRequests ==
    {[owner |-> "R1", upload |-> Upload(GeneralName, [gz |-> FALSE, mtime |-> 0], t),
      date |-> d] : t \in GrowingTexts, d \in {NULL, "D1"}}

\* process_logs with and without --reset, over all logs or over logs 1 and 2.
StoreOptions ==
    {[reset |-> r, level |-> 40, logs |-> g, repository |-> NULL] :
        r \in BOOLEAN, g \in {{}, {1, 2}}}

NextStore ==
    \/ \E req \in StoreRequests : Ingest(req)
    \/ \E req \in StoreRequests : \E victim \in {"none", "upload", "command"} :
          IngestBeside(req, victim)
    \/ Respond
    \/ \E opts \in StoreOptions : BatchBegin(opts)
    \/ SelectForUpdate
    \/ OpenLog
    \/ ScanRecord
    \/ CloseLog
    \/ Commit
    \/ Abort

SpecStore == Init /\ [][NextStore]_vars

\* ------------------------------------------------------------------ claims: Ingest

Answered == last.op = "ingest"
Accepted == Answered /\ last.result = "ok"

\* What the answered request put on the wire, as create() prepared it.
SentName == Prepared(last.req.upload, now).name
SentData == Prepared(last.req.upload, now).data

\* The decompressed text of a stored row.
TextOf(r) == r.sha256_hash.text

\* Row r is what an earlier request with the same owner, name and bytes stored.
SameUploadBefore(r) ==
    /\ r.repository = last.req.owner
    /\ r.log.name = SentName
    /\ TextOf(r) = last.req.upload.text
    /\ last.req.upload.gz => r.sha256_hash = SentData

\* C1: Ingest is idempotent per owner: after a second Ingest of the same bytes
\* under the same name by the same owner (gzip-framed or not, Tutor or not,
\* whatever the time between the calls) exactly one LogFile holds that content.
C1_IdempotentPerOwner ==
    (Accepted /\ \E r \in last.before.rows : SameUploadBefore(r))
        => Cardinality({r \in rows : /\ r.repository = last.req.owner
                                     /\ r.type = last.type
                                     /\ TextOf(r) = last.req.upload.text}) = 1

\* The rows of the state before the answered request that hold exactly the
\* bytes it sent, for the same owner.
StoredBefore ==
    {r \in last.before.rows : /\ r.repository = last.req.owner
                              /\ r.log.path \in DOMAIN last.before.files
                              /\ last.before.files[r.log.path].data = SentData}

\* C2: an Ingest of bytes identical to an existing LogFile of the same owner
\* returns that row and leaves the row and its backing bytes as they were.
C2_DuplicateReturnsRowUnchanged ==
    Accepted =>
        \A r \in StoredBefore :
            /\ last.ret = r.id
            /\ r \in rows
            /\ r.log.path \in DOMAIN files
            /\ files[r.log.path] = last.before.files[r.log.path]

\* Two texts agree line by line on their first min(counted lines) lines.
CountedLines(t) == IF t.nl THEN Len(t.lines) ELSE IF t.lines = <<>> THEN 0 ELSE Len(t.lines) - 1
Agree(t1, t2) ==
    \A i \in 1..Min(CountedLines(t1), CountedLines(t2)) : t1.lines[i] = t2.lines[i]

Ids(rs) == {r.id : r \in rs}

\* The row the answered request created (it took the next primary key).
NewId == nextId - 1
SentDate == DeriveDate(SentName, last.req.date)

\* The earlier uploads the new one is a longer or shorter capture of: same
\* owner, same kind, same date, agreeing lines.
Overlapping ==
    {r \in last.before.rows : /\ r.repository = last.req.owner
                              /\ r.type = last.type
                              /\ r.date = SentDate
                              /\ Agree(TextOf(r), last.req.upload.text)}

MergeCase == Accepted /\ last.created /\ last.type # "TUTOR"

\* The other rows the merge scan visits that overlap the new upload too.
OtherOverlapping(e) ==
    {r \in last.before.rows \ {e} : /\ r.repository = last.req.owner
                                    /\ r.type = last.type
                                    /\ (r.date = SentDate \/ r.date = NULL)
                                    /\ Agree(TextOf(r), last.req.upload.text)}

\* Of the earlier upload e and the new one exactly one is left, it has the
\* larger line count, Ingest returned it, and the other's bytes are gone.
OneOfTwoSurvives(e) ==
    LET n == CountedLines(last.req.upload.text)
        left == {NewId, e.id} \cap Ids(rows)
    IN  /\ Cardinality(left) = 1
        /\ \A id \in left :
              /\ RowById(rows, id).num_lines >= n
              /\ RowById(rows, id).num_lines >= e.num_lines
              /\ last.ret = id
        /\ \A id \in {NewId, e.id} \ left : id \notin DOMAIN files

C4_NoOverlapLeft ==
    \A r1, r2 \in rows :
        (/\ r1.id # r2.id
         /\ r1.repository = r2.repository
         /\ r1.type = r2.type
         /\ r1.type # "TUTOR"
         /\ r1.date = r2.date)
            => ~Agree(TextOf(r1), TextOf(r2))

\* C5: stored backing files and LogFile rows are in one-to-one correspondence:
\* every row has its own existing backing file, and no backing file is left in
\* the upload store without a row.
C5_FilesMatchRows ==
    /\ \A r \in rows : r.log.path \in DOMAIN files
    /\ \A r1, r2 \in rows : r1.log.path = r2.log.path => r1 = r2
    /\ \A p \in DOMAIN files : \E r \in rows : r.log.path = p

\* Rows and files agree after a merge that deleted the new upload and after
\* one that deleted an older one.
C5_Witness ==
    /\ Accepted /\ last.created /\ rows # {}
    /\ NewId \notin Ids(rows)
    /\ NewId \notin DOMAIN files
    /\ \E r \in last.before.rows : r.id \notin Ids(rows) /\ r.log.path \notin DOMAIN files

\* C6: an Ingest of a Tutor-kind file deletes no LogFile and no backing file,
\* and when its content is not stored yet it adds exactly one LogFile, of kind
\* Tutor, even when an earlier Tutor upload is a line-prefix of it.
C6_TutorNeverMerges ==
    (Accepted /\ last.type = "TUTOR") =>
        /\ Ids(last.before.rows) \subseteq Ids(rows)
        /\ DOMAIN last.before.files \subseteq DOMAIN files
        /\ last.created =>
              /\ Ids(rows) = Ids(last.before.rows) \cup {NewId}
              /\ RowById(rows, NewId).type = "TUTOR"
              /\ Cardinality({r \in rows : r.type = "TUTOR"})
                    = Cardinality({r \in last.before.rows : r.type = "TUTOR"}) + 1

\* A Tutor upload was stored beside an earlier Tutor upload it extends.
C6_Witness ==
    /\ Accepted /\ last.type = "TUTOR" /\ last.created
    /\ \E r \in last.before.rows :
          /\ r.type = "TUTOR"
          /\ r.repository = last.req.owner
          /\ r.num_lines < CountedLines(last.req.upload.text)
          /\ Agree(TextOf(r), last.req.upload.text)

\* The name the answered request sent starts with none of the three prefixes.
NoPrefix(name) ==
    \A t \in {"TUTOR", "TESTING", "GENERAL"} : ~StartsWith(Lower(name), Prefix(t))

\* C8: a file name that starts with none of the Tutor, Testing and General
\* prefixes is classified Unknown: Ingest succeeds and stores a LogFile of kind
\* Unknown.
C8_UnknownFallback ==
    (Answered /\ NoPrefix(SentName) /\ StoredBefore = {}) =>
        /\ last.result = "ok"
        /\ NewId \in Ids(rows)
        /\ RowById(rows, NewId).type = "UNKNOWN"

\* The merge candidates of the answered request whose stored bytes are bad.
CorruptCandidates ==
    {r \in last.before.rows : /\ r.repository = last.req.owner
                              /\ r.type = last.type
                              /\ (r.date = SentDate \/ r.date = NULL)
                              /\ r.log.path \in DOMAIN last.before.files
                              /\ last.before.files[r.log.path].corrupt}

\* C9: when the stored bytes of a merge candidate cannot be read, ingestion
\* of the new file still succeeds: the new LogFile is persisted and the
\* unreadable candidate is skipped (it stays).
C9_CorruptCandidateSkipped ==
    (Answered /\ last.type \in {"GENERAL", "TESTING"} /\ StoredBefore = {}
        /\ CorruptCandidates # {}) =>
        /\ last.result = "ok"
        /\ \A r \in CorruptCandidates : r \in rows

\* ------------------------------------------------------------------ claims: Classify

\* The spellings of a type's prefix that differ in case only.
Spellings(type) ==
    CASE type = "TUTOR"   -> {<<"d","e","l","p","h","i">>, <<"D","E","L","P","H","I">>, <<"D","e","l","p","h","i">>, <<"d","E","L","P","H","i">>}
      [] type = "TESTING" -> {<<"t","e","s","t","i","n","g">>, <<"T","E","S","T","I","N","G">>, <<"T","e","s","t","i","n","g">>, <<"t","E","s","T","i","N","g">>}
      [] type = "GENERAL" -> {<<"l","e","a","r","n","_","p","y","t","h","o","n">>, <<"L","E","A","R","N","_","P","Y","T","H","O","N">>, <<"L","e","a","r","n","_","P","y","t","h","o","n">>, <<"l","e","a","r","n","_","P","y","t","h","o","n">>}

StartsWithSpelling(name, type) == \E h \in Spellings(type) : StartsWith(name, h)

\* Prefix p occurs in the name at some position after the first.
OccursLater(name, p) ==
    \E i \in 2..Len(name) : StartsWith(SubSeq(name, i, Len(name)), p)

\* C7: a file name that starts with a type's prefix, in any letter case, is
\* classified as that type, Tutor before Testing before General, whatever
\* other prefixes occur later in the name.
C7_FirstPrefixWins ==
    cls.type # "pending" =>
        /\ StartsWithSpelling(cls.name, "TUTOR") => cls.type = "TUTOR"
        /\ (~StartsWithSpelling(cls.name, "TUTOR") /\ StartsWithSpelling(cls.name, "TESTING"))
              => cls.type = "TESTING"
        /\ (~StartsWithSpelling(cls.name, "TUTOR") /\ ~StartsWithSpelling(cls.name, "TESTING")
              /\ StartsWithSpelling(cls.name, "GENERAL")) => cls.type = "GENERAL"

\* A name in capitals starting with the Tutor prefix and holding the Testing
\* prefix further on was classified Tutor.
C7_Witness ==
    /\ cls.type = "TUTOR"
    /\ StartsWith(cls.name, <<"D","E","L","P","H","I">>)
    /\ OccursLater(cls.name, <<"t","e","s","t","i","n","g">>)

\* ------------------------------------------------------------------ claims: the parser

\* The positions of the lines of the log shape, and the k-th of them.
PrimaryAt(text) == {n \in 1..Len(text.lines) : text.lines[n].shape = "log"}
KthPrimary(text, k) ==
    CHOOSE n \in PrimaryAt(text) : Cardinality({m \in PrimaryAt(text) : m <= n}) = k

\* The first position after n that is a line of the log shape, or one past
\* the last line.
NextPrimary(text, n) ==
    IF \E m \in PrimaryAt(text) : m > n
    THEN CHOOSE m \in PrimaryAt(text) : m > n /\ \A o \in PrimaryAt(text) : o > n => m <= o
    ELSE Len(text.lines) + 1

\* The message a record for lines p..q-1 has to carry: the free text of line
\* p, then every following line whole, in order.
MessageOf(text, p, q) ==
    [j \in 1..(q - p) |->
        IF j = 1 THEN [text |-> text.lines[p].body, nl |-> FALSE]
        ELSE [text |-> text.lines[p + j - 1].body,
              nl |-> (p + j - 1 < Len(text.lines)) \/ text.nl]]

FirstLinePrimary == it.text.lines # <<>> /\ it.text.lines[1].shape = "log"

\* C10: when the first line of the file matches the primary pattern, the
\* parser yields exactly one record per primary-matching line, none of them
\* empty, and every other line is in the message of the record of the nearest
\* primary-matching line before it.
C10_OneRecordPerPrimaryLine ==
    (it.state = "done" /\ it.file_handle /\ FirstLinePrimary) =>
        /\ Len(it.out) = Cardinality(PrimaryAt(it.text))
        /\ \A k \in 1..Len(it.out) :
              /\ DOMAIN it.out[k] # {}
              /\ it.out[k]["message"] =
                    MessageOf(it.text, KthPrimary(it.text, k),
                              NextPrimary(it.text, KthPrimary(it.text, k)))

\* Primary, other line, primary: two records, the first with both lines' text.
C10_Witness ==
    /\ it.state = "done"
    /\ it.text = Text(<<P1, XL, P2>>, FALSE)
    /\ Len(it.out) = 2
    /\ Len(it.out[1]["message"]) = 2
    /\ it.out[1]["message"][2].text = XL.body

\* ------------------------------------------------------------------ claims: tool runs

\* The START and STOP markers of a text, in file order.
IsMarker(line) == line.shape = "log" /\ line.body[1].k \in {"start", "stop"}
Markers(text) == SelectSeq(text.lines, IsMarker)

\* The spans a properly nested marker sequence brackets, in the order their
\* STOPs occur; nested tells whether the sequence is properly nested.
RECURSIVE Spans(_, _, _)
Spans(markers, open, out) ==
    IF markers = <<>>
    THEN [nested |-> open = <<>>, spans |-> out]
    ELSE LET m == Head(markers)
         IN  IF m.body[1].k = "start"
             THEN Spans(Tail(markers), Append(open, m), out)
             ELSE IF open # <<>> /\ open[Len(open)].body[1].a = m.body[1].a
                  THEN Spans(Tail(markers), SubSeq(open, 1, Len(open) - 1),
                             Append(out, [tool |-> m.body[1].a,
                                          start |-> TsParse(open[Len(open)].ts),
                                          stop |-> TsParse(m.ts)]))
                  ELSE [nested |-> FALSE, spans |-> out]

ProperlyNested(text) == Spans(Markers(text), <<>>, <<>>).nested

IsToolRun(e) == e.kind = "ToolRun"

\* The ToolRuns among the rows a command inserted, in insertion order.
ToolRunsOf(inserted) ==
    LET runs == SelectSeq(inserted, IsToolRun)
    IN  [i \in 1..Len(runs) |->
            [tool |-> runs[i].tool, start |-> runs[i].timestamp, stop |-> runs[i].stop]]

\* The text of the one stored log of SpecExtract.
TheText == files[1].data.text

\* No two lines of the text carry the same timestamp.
DistinctStamps(text) ==
    \A i, j \in 1..Len(text.lines) : i # j => text.lines[i].ts # text.lines[j].ts

\* C11: a batch that extracted a Testing log whose START/STOP markers are
\* properly nested, every line with a timestamp of its own, has emitted exactly one ToolRun per pair (tool the tag,
\* start and stop the timestamps of the two markers), in the order of the
\* STOPs, inner span before the enclosing one.
C11_BracketMatching ==
    \A n \in 1..Len(batch.done) :
        (/\ batch.done[n].outcome = "committed"
         /\ batch.done[n].targets # <<>>
         /\ ProperlyNested(TheText)
         /\ DistinctStamps(TheText))
        => ToolRunsOf(batch.done[n].inserted) = Spans(Markers(TheText), <<>>, <<>>).spans

\* The scan is about to consume a record.
Scanning == batch.pc = "scan" /\ it.file_handle /\ it.next_line # EOF

\* The record the scan is about to consume.
Consumed == NextRecord(it).record

\* The STOP about to be consumed finds the stack empty or another tag on top.
Unmatched ==
    \/ batch.runner_stack = <<>>
    \/ batch.runner_stack[Len(batch.runner_stack)].tool # Consumed["stop"]

\* A STOP that matched nothing is among the lines [from, to) of the text.
RECURSIVE UnmatchedStopIn(_, _, _, _)
UnmatchedStopIn(text, from, to, open) ==
    IF from >= to THEN FALSE
    ELSE LET tok == text.lines[from].body[1]
         IN  IF tok.k = "start"
             THEN UnmatchedStopIn(text, from + 1, to, Append(open, tok.a))
             ELSE IF tok.k = "stop"
                  THEN IF open # <<>> /\ open[Len(open)] = tok.a
                       THEN UnmatchedStopIn(text, from + 1, to, SubSeq(open, 1, Len(open) - 1))
                       ELSE TRUE
                  ELSE UnmatchedStopIn(text, from + 1, to, open)

\* C12: consuming a STOP that finds the stack empty or another tag on top
\* emits no ToolRun, raises nothing and leaves the stack as it was; a STOP
\* that comes after such a STOP and matches the top pops it and emits the
\* ToolRun of the pair.
C12_UnbalancedStop ==
    [][(/\ Scanning
        /\ "stop" \in DOMAIN Consumed
        /\ DistinctStamps(TheText)
        /\ ~batch.tx.needs_rollback)
       => IF Unmatched
          THEN /\ batch'.runner_stack = batch.runner_stack
               /\ batch'.inserted = batch.inserted
               /\ batch'.pc = "scan"
          ELSE UnmatchedStopIn(TheText, 1, it.pos, <<>>)
               => /\ batch'.runner_stack =
                        SubSeq(batch.runner_stack, 1, Len(batch.runner_stack) - 1)
                  /\ ToolRunsOf(batch'.inserted) =
                        Append(ToolRunsOf(batch.inserted),
                               [tool |-> Consumed["stop"],
                                start |-> batch.runner_stack[Len(batch.runner_stack)].timestamp,
                                stop |-> Consumed["timestamp"]])]_vars

\* ------------------------------------------------------------------ claims: records of a Testing log

\* The step stored one more row.
Emitted == Len(batch'.inserted) = Len(batch.inserted) + 1
Newest == batch'.inserted[Len(batch'.inserted)]

\* C13: a TestEvent stored for a record with result and identifier refers to
\* the assignment of that identifier in the course the repository is enrolled
\* in, and its runner is the tag at the bottom of the stack, unset when the
\* stack is empty.
C13_TestEventAssignmentAndRunner ==
    [][(Scanning /\ Emitted /\ Newest.kind = "TestEvent")
       => /\ {"result", "identifier"} \subseteq DOMAIN Consumed
          /\ Newest.assignment.identifier = Consumed["identifier"]
          /\ Newest.assignment.course = Course(batch.current.repository)
          /\ Newest.assignment \in Assignments
          /\ Newest.runner = IF batch.runner_stack = <<>> THEN NULL
                             ELSE Runner(batch.runner_stack[1].tool)]_vars

\* A TestEvent was stored while pytest was open at the bottom of the stack
\* and docs on top of it.
C13_Witness ==
    /\ batch.pc = "scan"
    /\ Len(batch.runner_stack) = 2
    /\ batch.runner_stack[1].tool = "pytest" /\ batch.runner_stack[2].tool = "docs"
    /\ batch.inserted # <<>>
    /\ batch.inserted[Len(batch.inserted)].kind = "TestEvent"
    /\ batch.inserted[Len(batch.inserted)].runner = "PYTEST"
    /\ batch.inserted[Len(batch.inserted)].line_begin = 2

\* C14: a record with result and identifier whose identifier resolves to no
\* assignment of the repository's course stores no event of any type, and
\* the scan goes on.
C14_UnresolvedResultDropped ==
    [][(/\ Scanning
        /\ {"result", "identifier"} \subseteq DOMAIN Consumed
        /\ ~batch.tx.needs_rollback
        /\ ResolveAssignment(Course(batch.current.repository), Consumed["identifier"]) = {})
       => /\ batch'.inserted = batch.inserted
          /\ batch'.tx.events = batch.tx.events
          /\ batch'.pc = "scan"]_vars

\* The record is none of the three kinds a Testing log is searched for.
PlainRecord(record) ==
    /\ DOMAIN record # {}
    /\ "start" \notin DOMAIN record
    /\ "stop" \notin DOMAIN record
    /\ ~({"result", "identifier"} \subseteq DOMAIN record)

\* C16: in a Testing log a record without start, stop or result and
\* identifier is stored as a plain LogEvent whatever its level.
C16_TestingPlainRecordEmitted ==
    [][(/\ Scanning
        /\ batch.current.type = "TESTING"
        /\ PlainRecord(Consumed)
        /\ ~batch.tx.needs_rollback
        /\ ~UniqueClash(batch.tx.events, LogEventRow(Consumed, batch.current)))
       => /\ Emitted
          /\ Newest = LogEventRow(Consumed, batch.current)]_vars

\* ------------------------------------------------------------------ claims: level filter

\* The scan is about to consume a parsed record of a log that is not a
\* Testing log.
ScanningGeneral ==
    Scanning /\ batch.current.type # "TESTING" /\ DOMAIN Consumed # {}

\* The step stored the consumed record as a plain LogEvent.
EmittedAsLogEvent == Emitted /\ Newest = LogEventRow(Consumed, batch.current)

\* C15 as stated: a parsed record of a General log is stored as a plain
\* LogEvent if and only if its level is at or above the threshold.
C15_LevelFilterIff ==
    [][ScanningGeneral
       => (EmittedAsLogEvent <=> Consumed["level"] >= batch.opts.level)]_vars

\* C15 amended: a record below the threshold stores nothing and reports
\* nothing; a record at or above it is stored as a plain LogEvent, or its
\* insert fails and is reported on stderr with nothing stored.
C15_LevelFilterUnlessInsertFails ==
    [][ScanningGeneral
       => IF Consumed["level"] >= batch.opts.level
          THEN \/ EmittedAsLogEvent /\ batch'.stderr = batch.stderr
               \/ /\ batch'.inserted = batch.inserted
                  /\ batch'.tx.events = batch.tx.events
                  /\ batch'.stderr.record = batch.stderr.record + 1
          ELSE /\ batch'.inserted = batch.inserted
               /\ batch'.tx.events = batch.tx.events
               /\ batch'.stderr = batch.stderr]_vars

\* With threshold ERROR, a General log of an ERROR line and an INFO line
\* has been scanned: the first is stored, the second is not.
C15_Witness ==
    /\ batch.pc = "scan"
    /\ batch.current.type = "GENERAL"
    /\ batch.opts.level = 40
    /\ it.text.lines = <<GE, GI>>
    /\ it.next_line = EOF
    /\ Len(batch.inserted) = 1
    /\ batch.inserted[1].kind = "LogEvent"
    /\ batch.inserted[1].level = 40
    /\ batch.stderr.record = 0

\* ------------------------------------------------------------------ claims: batches

\* Every log the command targeted belongs to an enrolled repository.
AllEnrolled(targets) ==
    \A n \in 1..Len(targets) : Course(targets[n].repository) # NULL

\* C17: a command in which the insert of some record failed has still
\* committed, and every log it targeted is marked processed.
C17_RecordFailureAbsorbed ==
    \A n \in 1..Len(batch.done) :
        LET d == batch.done[n]
        IN  (d.stderr.record > 0 /\ AllEnrolled(d.targets))
            => /\ d.outcome = "committed"
               /\ \A k \in 1..Len(d.targets) :
                     \E r \in rows : r.id = d.targets[k].id /\ r.processed

\* The step is the commit of the running command.
Committing == batch.pc = "next" /\ batch.queue = <<>> /\ batch'.pc = "idle"

\* The ids of the rows marked processed.
ProcessedIds(rs) == {r.id : r \in {q \in rs : q.processed}}

C19_ResetTwiceSameEvents ==
    (/\ Len(batch.done) = 2
     /\ batch.done[1].opts.reset
     /\ batch.done[2].opts = batch.done[1].opts)
    => /\ batch.done[2].outcome = batch.done[1].outcome
       /\ batch.done[2].events = batch.done[1].events
       /\ events = batch.done[1].events

\* Two --reset commands have committed; the first stored a TestEvent and the
\* second stored its events anew.
C19_Witness ==
    /\ Len(batch.done) = 2
    /\ batch.done[1].opts.reset /\ batch.done[2].opts.reset
    /\ batch.done[1].outcome = "committed" /\ batch.done[2].outcome = "committed"
    /\ \E e \in batch.done[1].events : e.kind = "TestEvent"
    /\ batch.done[2].inserted # <<>>
    /\ events = batch.done[1].events

\* The rows with the logs of the given ids marked processed.
Marked(rs, ids) ==
    {IF r.id \in ids THEN [r EXCEPT !.processed = TRUE] ELSE r : r \in rs}

\* C20: the stored events and the stored logs change at the commit of a
\* command and at no other step of it, and the commit makes all the
\* command's insertions, deletions and processed flags visible at once; a
\* command that fails leaves both as they were.
C20_BatchAtomic ==
    [][/\ (events' # events \/ rows' # rows) => Committing
       /\ Committing => /\ events' = batch.tx.events
                        /\ rows' = Marked(rows, batch.tx.processed)
                        /\ batch.tx.processed = {batch.targets[n].id : n \in 1..Len(batch.targets)}
       /\ (batch.pc = "failed" /\ batch'.pc = "idle")
             => events' = events /\ rows' = rows]_vars

\* A --reset command over two logs has failed on the second: inside its
\* transaction the events of an earlier command are deleted, new ones are
\* inserted and the first log is marked processed, and none of it is visible.
C20_Witness ==
    /\ batch.pc = "failed"
    /\ batch.opts.reset
    /\ Len(batch.targets) = 2 /\ Len(batch.queue) = 1
    /\ batch.tx.processed # {}
    /\ ~(batch.tx.processed \subseteq ProcessedIds(rows))
    /\ batch.inserted # <<>>
    /\ events # {}
    /\ ~(events \subseteq batch.tx.events)
    /\ ~(batch.tx.events \subseteq events)

\* ------------------------------------------------------------------ claims: locks

\* The events the open transaction has deleted or inserted.
TxDeleted == events \ batch.tx.events
TxInserted == batch.tx.events \ events

\* C21: a command changes the derived events of a log, the deletions of
\* --reset included, only while it holds the lock on the row of that log.
C21_LockHeldBeforeChange ==
    batch.pc # "idle"
    => \A e \in TxDeleted \cup TxInserted :
          e.kind \in {"LogEvent", "TestEvent"} => e.log \in batch.locked

\* The step at which the command fetches and locks its logs.
Selecting == batch.pc = "select" /\ batch'.pc # "select" /\ last' = last

\* The ids --logs names that have no row: logs merged away by an upload.
Gone == batch.opts.logs \ Ids(rows)

CleanStamps(r) ==
    /\ DistinctStamps(TextOf(r))
    /\ \A n \in 1..Len(TextOf(r).lines) : TsParse(TextOf(r).lines[n].ts).parsed

\* C23: events are unique in (timestamp, log).  A command over General logs
\* of enrolled repositories, none of which repeats a timestamp within
\* itself, stores an event for every line at or above the threshold, also
\* when two of the logs belong to one repository and share a timestamp.
C23_KeyIsTimestampAndLog ==
    \A n \in 1..Len(batch.done) :
        LET d == batch.done[n]
        IN  (/\ AllEnrolled(d.targets)
             /\ \A k \in 1..Len(d.targets) :
                   d.targets[k].type = "GENERAL" /\ CleanStamps(d.targets[k]))
            => \A k \in 1..Len(d.targets) :
                 \A m \in 1..Len(TextOf(d.targets[k]).lines) :
                    LogLevel(TextOf(d.targets[k]).lines[m].level) >= d.opts.level
                    => \E e \in d.events :
                          /\ e.log = d.targets[k].id
                          /\ e.timestamp = TsParse(TextOf(d.targets[k]).lines[m].ts)

\* ------------------------------------------------------------------ claims: ownership of events

\* C24: every stored LogEvent or TestEvent with a log refers to a stored
\* LogFile: when a merge deletes a log, the events derived from it go too.
C24_EventsOwnedByLog ==
    \A e \in events :
        (e.kind \in {"LogEvent", "TestEvent"} /\ e.log # 0) => e.log \in Ids(rows)

\* A command committed an event of log 1; an upload has since merged log 1
\* into a longer log, and the event went with it.
C24_Witness ==
    /\ \E n \in 1..Len(batch.done) :
          /\ batch.done[n].outcome = "committed"
          /\ \E e \in batch.done[n].events : e.kind = "LogEvent" /\ e.log = 1
    /\ 1 \notin Ids(rows)
    /\ rows # {}
    /\ \A e \in events : e.log # 1

\* ------------------------------------------------------------------ claims: secondary patterns

\* The records of out that are not empty, in order.
NonEmpty(out) == SelectSeq(out, LAMBDA r : DOMAIN r # {})

\* The positions of the lines of text that match the primary pattern, in order.
PrimaryPositions(text) ==
    SelectSeq([p \in 1..Len(text.lines) |-> p],
              LAMBDA p : PrimaryMatch(ReadLine(text, p)))

SecondaryKeys == {"start", "stop", "result", "identifier"}

Restrict(f, keys) == [k \in DOMAIN f \cap keys |-> f[k]]

\* C25: the start, stop, result and identifier fields of a record are those
\* the first matching secondary pattern finds on the line that matched the
\* primary pattern; the continuation lines of the record add or change none.
C25_OnlyPrimaryLineFields ==
    it.state \in {"open", "done"}
    => \A k \in 1..Len(NonEmpty(it.out)) :
          LET line == ReadLine(it.text, PrimaryPositions(it.text)[k])
          IN  Restrict(NonEmpty(it.out)[k], SecondaryKeys)
                = Restrict(AdditionalParams(SecondaryRegexes(it.type), 1, line,
                                            GroupDict(line[1])),
                           SecondaryKeys)

\* ------------------------------------------------------------------ claims: line spans

\* C26: when the file has been read to its end, the k-th record that is not
\* empty begins at the index (from 0) of the k-th line matching the primary
\* pattern and ends at the index of the next such line, or at the number of
\* lines for the last record; it spans at least one line, each record ends
\* where the next begins, and with the empty records returned for the lines
\* ahead of the first match every line is counted once.
C26_SpanIsAbsorbedLines ==
    (it.state = "done" /\ it.file_handle)
    => LET ne == NonEmpty(it.out)
           pp == PrimaryPositions(it.text)
           n == Len(it.text.lines)
       IN  /\ Len(ne) = Len(pp)
           /\ \A k \in 1..Len(ne) :
                 /\ ne[k]["line_begin"] = pp[k] - 1
                 /\ ne[k]["line_end"] = IF k < Len(pp) THEN pp[k + 1] - 1 ELSE n
                 /\ ne[k]["line_end"] - ne[k]["line_begin"] >= 1
                 /\ k < Len(ne) => ne[k]["line_end"] = ne[k + 1]["line_begin"]
           /\ Len(it.out) - Len(ne) = IF pp = <<>> THEN n ELSE pp[1] - 1
           /\ \A k \in 1..(Len(it.out) - Len(ne)) : DOMAIN it.out[k] = {}

\* Primary line, continuation line, primary line: the first record spans
\* lines 0 and 1, the second line 2.
C26_Witness ==
    /\ it.state = "done"
    /\ it.text = Text(<<P1, XR, P2>>, TRUE)
    /\ Len(it.out) = 2
    /\ it.out[1]["line_begin"] = 0 /\ it.out[1]["line_end"] = 2
    /\ it.out[2]["line_begin"] = 2 /\ it.out[2]["line_end"] = 3

\* ------------------------------------------------------------------ claims: what a batch leaves alone

\* Log r is outside what a command with options opts selects.
Outside(r, opts) ==
    \/ opts.logs # {} /\ r.id \notin opts.logs
    \/ opts.repository # NULL /\ r.repository # opts.repository
    \/ ~opts.reset /\ r.processed

\* The LogEvent and TestEvent rows of evts that derive from the logs ids.
EventsOf(evts, ids) ==
    {e \in evts : e.kind \in {"LogEvent", "TestEvent"} /\ e.log \in ids}

Beginning == batch.pc = "idle" /\ batch'.pc = "select"

\* C27: a command fetches none of the logs outside its filters; its commit
\* leaves their rows and their events as they were, and no other step of the
\* command changes a stored row or event.  Before it fetches any log, a
\* command with --reset has deleted in its transaction the events of the
\* logs inside its filters and no others; without --reset it has deleted
\* nothing.
C27_BatchFrame ==
    [][/\ Beginning
          => batch'.tx.events =
                IF batch'.opts.reset
                THEN events \ EventsOf(events, Ids({r \in rows : ~Outside(r, batch'.opts)}))
                ELSE events
       /\ Selecting
          => \A n \in 1..Len(batch'.targets) : ~Outside(batch'.targets[n], batch.opts)
       /\ Committing
          => LET out == {r \in rows : Outside(r, batch.opts)}
             IN  /\ out \subseteq rows'
                 /\ EventsOf(events', Ids(out)) = EventsOf(events, Ids(out))
                 /\ batch.opts.reset
                    => EventsOf(events', Ids(rows \ out))
                         \subseteq {batch.inserted[n] : n \in 1..Len(batch.inserted)}
       /\ ~Committing => rows' = rows /\ events' = events]_vars

\* Both logs were processed at level 20 by a first command; a second one
\* with --reset over log 1 alone has committed: the events of log 1 are the
\* ones it stored anew, log 2 keeps its flag and the event of the first command.
C27_Witness ==
    /\ Len(batch.done) = 2
    /\ batch.done[1].outcome = "committed" /\ batch.done[2].outcome = "committed"
    /\ batch.done[2].opts.reset /\ batch.done[2].opts.logs = {1}
    /\ Len(batch.done[1].targets) = 2
    /\ Ids(rows) = {1, 2} /\ ProcessedIds(rows) = {1, 2}
    /\ EventsOf(events, {2}) # {}
    /\ EventsOf(events, {2}) = EventsOf(batch.done[1].events, {2})
    /\ EventsOf(events, {1}) # {}

\* ------------------------------------------------------------------ claims: the stack of one file

Opening == batch.pc = "next" /\ batch'.pc = "scan"

\* The lines of the log being scanned that the iterator has gone past.
LinesRead == SubSeq(TextOf(batch.current).lines, 1, it.pos - 1)

\* Every entry of the stack is a START line already read from the log being
\* scanned.
StackFromCurrent(stack) ==
    \A n \in 1..Len(stack) :
        \E k \in 1..Len(LinesRead) :
            /\ LinesRead[k].body[1] = StartTok(stack[n].tool)
            /\ TsParse(LinesRead[k].ts) = stack[n].timestamp

ToolRuns(evts) == {e \in evts : e.kind = "ToolRun"}

\* C28: the scan of every log of a command starts with an empty stack, and
\* while a log is scanned the stack holds START lines of that log alone; a
\* STOP pops, and a ToolRun is tried, only against such an entry, and the
\* end of a log with STARTs left on the stack stores no ToolRun.
C28_StackLocalToFile ==
    [][/\ Opening => batch'.runner_stack = <<>>
       /\ batch.pc = "scan" => StackFromCurrent(batch.runner_stack)
       /\ (Scanning /\ batch'.stderr.tool # batch.stderr.tool)
          => /\ "stop" \in DOMAIN Consumed
             /\ batch.runner_stack # <<>>
             /\ batch.runner_stack[Len(batch.runner_stack)].tool = Consumed["stop"]
       /\ (batch.pc = "scan" /\ batch'.pc # "scan")
          => /\ ToolRuns(batch'.tx.events) = ToolRuns(batch.tx.events)
             /\ batch'.stderr.tool = batch.stderr.tool]_vars

\* The log of day D2, the first in Meta.ordering, ended with START pytest on
\* the stack; in the same command the log of day D1 began with STOP pytest,
\* which found the stack empty: nothing was popped and no ToolRun was tried.
C28_Witness ==
    /\ batch.pc = "scan" /\ batch.current.id = 1
    /\ Len(batch.targets) = 2
    /\ TextOf(batch.targets[1]).lines = <<SA2>>
    /\ TextOf(batch.current).lines = <<EA, RA>>
    /\ it.pos = 2
    /\ batch.runner_stack = <<>>
    /\ batch.stderr.tool = 0

\* ------------------------------------------------------------------ claims: what an upload leaves alone

Ingesting == last.op = "none" /\ last'.op = "ingest"

\* The date create() derives for the upload being ingested.
IngestDate ==
    DeriveDate(Prepared(last'.req.upload, now).name, last'.req.date)

\* C29: an upload by an owner, classified as some kind, leaves every log of
\* another owner, of another kind, or with a date that is set and is not the
\* upload's date as it was: its row, its stored file and its events.
C29_ForeignLogsUntouched ==
    [][Ingesting
       => \A r \in rows :
             (\/ r.repository # last'.req.owner
              \/ r.type # last'.type
              \/ r.date # NULL /\ r.date # IngestDate)
             => /\ r \in rows'
                /\ r.log.path \in DOMAIN files
                   => /\ r.log.path \in DOMAIN files'
                      /\ files'[r.log.path] = files[r.log.path]
                /\ EventsOf(events', {r.id}) = EventsOf(events, {r.id})]_vars

\* ------------------------------------------------------------------ claims: order of uploads

TheStore == [rows |-> rows, files |-> files, engLog |-> engLog, nextId |-> nextId]

\* The texts of the logs a store holds.
Contents(store) == {TextOf(r) : r \in store.rows}

\* C30: from every store that General uploads of one owner have built, two
\* further such uploads leave the same set of log texts in either order.
C30_MergeOrderIndependent ==
    last.op = "none"
    => \A a, b \in OrderRequests :
          Contents(After(After(TheStore, a, now), b, now))
            = Contents(After(After(TheStore, b, now), a, now))
====
